---- MODULE Spec2Model ----
(***************************************************************************)
(* Dodgem (index.js): a CLI that logs in to Rocket League Garage, scrapes  *)
(* the user's active trade listings and bumps all of them or the oldest    *)
(* one, then re-arms a timer to do it again.                               *)
(*                                                                         *)
(* The state is the preference store, the parsed command arguments, the    *)
(* promise chains that are alive (one slot per chain, each with its        *)
(* position in boot/login/scrapeTrades/updateTrades), and the pending      *)
(* setTimeout timers.  Every awaited Page Driver call is one step that     *)
(* either resolves or rejects.                                             *)
(***************************************************************************)
EXTENDS Integers, Sequences, FiniteSets, TLC

(* ------------------------------ bounds --------------------------------- *)
NumUrls == 3            \* distinct listing URLs the site can show
MaxChains == 2          \* slots for promise chains alive at once
MaxCycles == 2          \* the cycle counter saturates here
MaxIntervalLen == 1     \* characters in the <interval> argument
NumCredentials == 2     \* distinct credential triples the prompt can yield

(* ------------------------------ values --------------------------------- *)
undefined == 0          \* JavaScript's undefined
Urls == 1..NumUrls
Chains == 1..MaxChains

RECURSIVE SeqsUpTo(_, _)
SeqsUpTo(S, n) ==
  IF n = 0 THEN {<<>>}
  ELSE LET shorter == SeqsUpTo(S, n - 1)
       IN  shorter \cup {Append(s, x) : s \in shorter, x \in S}

Range(s) == {s[i] : i \in 1..Len(s)}

\* What the site can show: the user's listings, each URL at most once,
\* in document order (newest first).
Listings == {s \in SeqsUpTo(Urls, NumUrls) : Cardinality(Range(s)) = Len(s)}

\* arr[i] of a JavaScript array (0-based); out of range reads give undefined
At(arr, i) == IF i >= 0 /\ i < Len(arr) THEN arr[i + 1] ELSE undefined

(* --------------------------- command line ------------------------------ *)
TargetInputs == {"all", "oldest", "newest"}
TargetChoices == {"all", "oldest"}
Chars == {"0", "1", "x"}
Digits == {"0", "1"}
IntervalInputs == SeqsUpTo(Chars, MaxIntervalLen)

\* /^\d*$/
MatchesDigits(s) == \A i \in 1..Len(s) : s[i] \in Digits

DigitVal(ch) == IF ch = "1" THEN 1 ELSE 0

\* the number a digit string is coerced to by the multiplication
RECURSIVE ToNumber(_)
ToNumber(s) ==
  IF Len(s) = 0 THEN 0
  ELSE 10 * ToNumber(SubSeq(s, 1, Len(s) - 1)) + DigitVal(s[Len(s)])

\* 1000 * 60 * minutes
TimerDelay(minutes) == 1000 * 60 * ToNumber(minutes)

(* ---------------------------- credentials ------------------------------ *)
NoPrefs == [username |-> undefined, emailAddress |-> undefined, password |-> undefined]
CredentialInputs ==
  {[username |-> v, emailAddress |-> 10 + v, password |-> 20 + v] : v \in 1..NumCredentials}

(* ------------------------------ pipeline ------------------------------- *)
BootOps == <<"launch", "newPage">>
LoginOps == <<"goto", "focus", "type", "focus", "type", "click", "waitForNavigation">>
ScrapeOps == <<"goto", "evaluate">>
UpdateOps == <<"goto", "click", "waitForNavigation", "click", "waitForNavigation">>

NoArgs == [target |-> "none", interval |-> <<>>]

\* page: the page of the tuple [page, args, opts] the chain hands on;
\* calls: the Page Driver calls made for tradeUrls[index] so far, each with
\* whether it resolved; lastCalls: those made for tradeUrls[index - 1]
FreeChain ==
  [pc |-> "free", step |-> 0, scraped |-> <<>>, tradeUrls |-> <<>>,
   index |-> 0, attempts |-> <<>>, report |-> <<>>,
   page |-> undefined, calls |-> <<>>, lastCalls |-> <<>>]

\* what prompt.get has handed to its callback: nothing yet
NoPrompt == [called |-> FALSE, error |-> FALSE, credentials |-> NoPrefs]

VARIABLES
  pages,      \* pages opened by browser.newPage() in this run
  lastPrompt, \* the arguments of the last call of the prompt's callback
  cmd,        \* "none" | "bump" | "login" | "exited": the command of this process run
  args,       \* the validated arguments of the bump command
  prefs,      \* the preference store (persists across runs)
  chains,     \* promise chains, by slot
  timers,     \* the pending setTimeout timers: delay, and the page of the closure
  cycles,     \* scrapeTrades invocations so far in this run (saturating)
  logins,     \* login invocations so far in this run
  loggedIn,   \* login has run to its end ("Logged in as ...")
  errs        \* stages whose Page Driver error propagated out of the stage

vars == <<cmd, args, prefs, chains, timers, cycles, logins, loggedIn, errs, pages, lastPrompt>>

Init ==
  /\ pages = 0
  /\ lastPrompt = NoPrompt
  /\ cmd = "none"
  /\ args = NoArgs
  /\ prefs = NoPrefs
  /\ chains = [c \in Chains |-> FreeChain]
  /\ timers = <<>>
  /\ cycles = 0
  /\ logins = 0
  /\ loggedIn = FALSE
  /\ errs = {}

Bump(n) == IF n < MaxCycles THEN n + 1 ELSE n

\* the chain's promise rejects: no later .then handler of the chain runs
Reject(c, stage) ==
  /\ chains' = [chains EXCEPT ![c].pc = "rejected"]
  /\ errs' = errs \cup {stage}

\* the slot a new promise chain takes: the first one with no live chain
HasFreeSlot == \E c \in Chains : chains[c].pc \in {"free", "done"}
FreeSlot == CHOOSE c \in Chains :
  /\ chains[c].pc \in {"free", "done"}
  /\ \A d \in Chains : chains[d].pc \in {"free", "done"} => c <= d

(* ------------------------- the bump command ---------------------------- *)
\* dodgem bump <target> <interval>: both arguments validated, then
\* boot(args, opts) starts the chain boot -> login -> scrapeTrades ->
\* updateTrades -> scheduleUpdateTrades
CmdBump(t, i) ==
  /\ cmd = "none"
  /\ IF t \in TargetChoices /\ MatchesDigits(i)
     THEN /\ cmd' = "bump"
          /\ args' = [target |-> t, interval |-> i]
          /\ chains' = [chains EXCEPT ![FreeSlot] = [FreeChain EXCEPT !.pc = "boot", !.step = 1]]
     ELSE /\ cmd' = "exited"
          /\ UNCHANGED <<args, chains>>
  /\ UNCHANGED <<prefs, timers, cycles, logins, loggedIn, errs, pages, lastPrompt>>

\* boot: puppeteer.launch(), browser.newPage(); the new page goes into the
\* tuple and login is entered
BootStep(c, ok) ==
  /\ chains[c].pc = "boot"
  /\ IF ~ok
     THEN Reject(c, "boot") /\ UNCHANGED <<logins, pages>>
     ELSE IF chains[c].step < Len(BootOps)
     THEN /\ chains' = [chains EXCEPT ![c].step = @ + 1]
          /\ UNCHANGED <<logins, errs, pages>>
     ELSE /\ chains' = [chains EXCEPT ![c].pc = "login", ![c].step = 1,
                                      ![c].page = pages + 1]
          /\ pages' = pages + 1
          /\ logins' = logins + 1
          /\ UNCHANGED errs
  /\ UNCHANGED <<cmd, args, prefs, timers, cycles, loggedIn, lastPrompt>>

\* mutation: an error in login is caught and the chain goes on to scrapeTrades
LoginStepCaught(c, ok) ==
  /\ chains[c].pc = "login"
  /\ IF ok /\ chains[c].step < Len(LoginOps)
     THEN /\ chains' = [chains EXCEPT ![c].step = @ + 1]
          /\ UNCHANGED <<cycles, loggedIn, errs>>
     ELSE /\ chains' = [chains EXCEPT ![c].pc = "scrape", ![c].step = 1]
          /\ loggedIn' = ok
          /\ cycles' = Bump(cycles)
          /\ errs' = IF ok THEN errs ELSE errs \cup {"login"}
  /\ UNCHANGED <<cmd, args, prefs, timers, logins, pages, lastPrompt>>

\* mutation: a failed login wipes the stored credentials
LoginStepClears(c, ok) ==
  /\ chains[c].pc = "login"
  /\ IF ~ok
     THEN Reject(c, "login") /\ prefs' = NoPrefs /\ UNCHANGED <<cycles, loggedIn>>
     ELSE IF chains[c].step < Len(LoginOps)
     THEN /\ chains' = [chains EXCEPT ![c].step = @ + 1]
          /\ UNCHANGED <<prefs, cycles, loggedIn, errs>>
     ELSE /\ chains' = [chains EXCEPT ![c].pc = "scrape", ![c].step = 1]
          /\ loggedIn' = TRUE
          /\ cycles' = Bump(cycles)
          /\ UNCHANGED <<prefs, errs>>
  /\ UNCHANGED <<cmd, args, timers, logins, pages, lastPrompt>>

\* login: goto, focus, type, focus, type, click, waitForNavigation, none of
\* them in a try block; after the last one scrapeTrades is entered
LoginStep(c, ok) ==
  /\ chains[c].pc = "login"
  /\ IF ~ok
     THEN Reject(c, "login") /\ UNCHANGED <<cycles, loggedIn>>
     ELSE IF chains[c].step < Len(LoginOps)
     THEN /\ chains' = [chains EXCEPT ![c].step = @ + 1]
          /\ UNCHANGED <<cycles, loggedIn, errs>>
     ELSE /\ chains' = [chains EXCEPT ![c].pc = "scrape", ![c].step = 1]
          /\ loggedIn' = TRUE
          /\ cycles' = Bump(cycles)
          /\ UNCHANGED errs
  /\ UNCHANGED <<cmd, args, prefs, timers, logins, pages, lastPrompt>>

\* mutation: the first element is taken for the oldest one
SelectTargetFirst(target, tradeUrls) ==
  IF target = "oldest" THEN <<At(tradeUrls, 0)>> ELSE tradeUrls

\* mutation: the comparison is an assignment, so the branch is always taken
SelectTargetAlways(target, tradeUrls) ==
  <<At(tradeUrls, Len(tradeUrls) - 1)>>

\* if (args.target === 'oldest') tradeUrls = [tradeUrls[tradeUrls.length - 1]]
SelectTarget(target, tradeUrls) ==
  IF target = "oldest" THEN <<At(tradeUrls, Len(tradeUrls) - 1)>> ELSE tradeUrls

\* mutation: a failed discovery is caught and the next cycle is scheduled
ScrapeStepCaught(c, ok, L) ==
  /\ chains[c].pc = "scrape"
  /\ IF ~ok
     THEN /\ chains' = [chains EXCEPT ![c].pc = "schedule"]
          /\ errs' = errs \cup {"scrape"}
     ELSE IF chains[c].step < Len(ScrapeOps)
     THEN /\ chains' = [chains EXCEPT ![c].step = @ + 1]
          /\ UNCHANGED errs
     ELSE /\ chains' = [chains EXCEPT ![c].pc = "update", ![c].step = 1,
                                      ![c].scraped = L,
                                      ![c].tradeUrls = SelectTarget(args.target, L),
                                      ![c].index = 0]
          /\ UNCHANGED errs
  /\ UNCHANGED <<cmd, args, prefs, timers, cycles, logins, loggedIn, pages, lastPrompt>>

\* scrapeTrades: goto the trades page, evaluate the anchors' hrefs (L is
\* what the page shows), apply the target, then updateTrades is entered
ScrapeStep(c, ok, L) ==
  /\ chains[c].pc = "scrape"
  /\ IF ~ok
     THEN Reject(c, "scrape")
     ELSE IF chains[c].step < Len(ScrapeOps)
     THEN /\ chains' = [chains EXCEPT ![c].step = @ + 1]
          /\ UNCHANGED errs
     ELSE /\ chains' = [chains EXCEPT ![c].pc = "update", ![c].step = 1,
                                      ![c].scraped = L,
                                      ![c].tradeUrls = SelectTarget(args.target, L),
                                      ![c].index = 0]
          /\ UNCHANGED errs
  /\ UNCHANGED <<cmd, args, prefs, timers, cycles, logins, loggedIn, pages, lastPrompt>>

\* mutation: the catch block leaves the loop
UpdateStepBreak(c, ok) ==
  LET ch == chains[c]
      tradeUrl == At(ch.tradeUrls, ch.index)
      tried == IF ch.step = 1 THEN Append(ch.attempts, tradeUrl) ELSE ch.attempts
      called == Append(ch.calls, [op |-> UpdateOps[ch.step], ok |-> ok])
  IN
  /\ ch.pc = "update"
  /\ ch.index < Len(ch.tradeUrls)
  /\ IF ~ok
     THEN chains' = [chains EXCEPT ![c].attempts = tried,
                                   ![c].report = Append(@, [url |-> tradeUrl, outcome |-> "failed"]),
                                   ![c].index = Len(ch.tradeUrls), ![c].step = 1,
                                   ![c].calls = <<>>, ![c].lastCalls = called]
     ELSE IF ch.step < Len(UpdateOps)
     THEN chains' = [chains EXCEPT ![c].attempts = tried, ![c].step = @ + 1,
                                   ![c].calls = called]
     ELSE chains' = [chains EXCEPT ![c].attempts = tried,
                                   ![c].report = Append(@, [url |-> tradeUrl, outcome |-> "succeeded"]),
                                   ![c].index = @ + 1, ![c].step = 1,
                                   ![c].calls = <<>>, ![c].lastCalls = called]
  /\ UNCHANGED <<cmd, args, prefs, timers, cycles, logins, loggedIn, errs, pages, lastPrompt>>

\* mutation: every call has its own catch, a failed call does not end the
\* attempt
UpdateStepGoesOn(c, ok) ==
  LET ch == chains[c]
      tradeUrl == At(ch.tradeUrls, ch.index)
      tried == IF ch.step = 1 THEN Append(ch.attempts, tradeUrl) ELSE ch.attempts
      called == Append(ch.calls, [op |-> UpdateOps[ch.step], ok |-> ok])
      allOk == \A k \in 1..Len(called) : called[k].ok
  IN
  /\ ch.pc = "update"
  /\ ch.index < Len(ch.tradeUrls)
  /\ IF ch.step < Len(UpdateOps)
     THEN chains' = [chains EXCEPT ![c].attempts = tried, ![c].step = @ + 1,
                                   ![c].calls = called]
     ELSE chains' = [chains EXCEPT ![c].attempts = tried,
                                   ![c].report = Append(@, [url |-> tradeUrl,
                                        outcome |-> IF allOk THEN "succeeded" ELSE "failed"]),
                                   ![c].index = @ + 1, ![c].step = 1,
                                   ![c].calls = <<>>, ![c].lastCalls = called]
  /\ UNCHANGED <<cmd, args, prefs, timers, cycles, logins, loggedIn, errs, pages, lastPrompt>>

\* mutation: the catch block calls spinner.succeed
UpdateStepSucceedInCatch(c, ok) ==
  LET ch == chains[c]
      tradeUrl == At(ch.tradeUrls, ch.index)
      tried == IF ch.step = 1 THEN Append(ch.attempts, tradeUrl) ELSE ch.attempts
      called == Append(ch.calls, [op |-> UpdateOps[ch.step], ok |-> ok])
  IN
  /\ ch.pc = "update"
  /\ ch.index < Len(ch.tradeUrls)
  /\ IF ok /\ ch.step < Len(UpdateOps)
     THEN chains' = [chains EXCEPT ![c].attempts = tried, ![c].step = @ + 1,
                                   ![c].calls = called]
     ELSE chains' = [chains EXCEPT ![c].attempts = tried,
                                   ![c].report = Append(@, [url |-> tradeUrl, outcome |-> "succeeded"]),
                                   ![c].index = @ + 1, ![c].step = 1,
                                   ![c].calls = <<>>, ![c].lastCalls = called]
  /\ UNCHANGED <<cmd, args, prefs, timers, cycles, logins, loggedIn, errs, pages, lastPrompt>>

\* one awaited call of the loop body of updateTrades for tradeUrls[index]:
\* goto, click edit, waitForNavigation, click submit, waitForNavigation.
\* A rejection is caught: spinner.fail and on to the next URL; after the
\* last call spinner.succeed and on to the next URL.
UpdateStep(c, ok) ==
  LET ch == chains[c]
      tradeUrl == At(ch.tradeUrls, ch.index)
      tried == IF ch.step = 1 THEN Append(ch.attempts, tradeUrl) ELSE ch.attempts
      called == Append(ch.calls, [op |-> UpdateOps[ch.step], ok |-> ok])
  IN
  /\ ch.pc = "update"
  /\ ch.index < Len(ch.tradeUrls)
  /\ IF ~ok
     THEN chains' = [chains EXCEPT ![c].attempts = tried,
                                   ![c].report = Append(@, [url |-> tradeUrl, outcome |-> "failed"]),
                                   ![c].index = @ + 1, ![c].step = 1,
                                   ![c].calls = <<>>, ![c].lastCalls = called]
     ELSE IF ch.step < Len(UpdateOps)
     THEN chains' = [chains EXCEPT ![c].attempts = tried, ![c].step = @ + 1,
                                   ![c].calls = called]
     ELSE chains' = [chains EXCEPT ![c].attempts = tried,
                                   ![c].report = Append(@, [url |-> tradeUrl, outcome |-> "succeeded"]),
                                   ![c].index = @ + 1, ![c].step = 1,
                                   ![c].calls = <<>>, ![c].lastCalls = called]
  /\ UNCHANGED <<cmd, args, prefs, timers, cycles, logins, loggedIn, errs, pages, lastPrompt>>

\* mutation: after the loop, a batch with a failed bump throws
UpdateTradesReturnThrows(c) ==
  /\ chains[c].pc = "update"
  /\ chains[c].index >= Len(chains[c].tradeUrls)
  /\ chains' = [chains EXCEPT ![c].pc =
        IF \E k \in 1..Len(chains[c].report) : chains[c].report[k].outcome = "failed"
        THEN "rejected" ELSE "schedule"]
  /\ UNCHANGED <<cmd, args, prefs, timers, cycles, logins, loggedIn, errs, pages, lastPrompt>>

\* the for loop of updateTrades is over: return [page, args, opts], so the
\* chain goes on to scheduleUpdateTrades
UpdateTradesReturn(c) ==
  /\ chains[c].pc = "update"
  /\ chains[c].index >= Len(chains[c].tradeUrls)
  /\ chains' = [chains EXCEPT ![c].pc = "schedule"]
  /\ UNCHANGED <<cmd, args, prefs, timers, cycles, logins, loggedIn, errs, pages, lastPrompt>>

\* mutation: the next run is announced but no timer is set
ScheduleUpdateTradesNoTimer(c) ==
  /\ chains[c].pc = "schedule"
  /\ chains' = [chains EXCEPT ![c].pc = "done"]
  /\ UNCHANGED <<cmd, args, prefs, timers, cycles, logins, loggedIn, errs, pages, lastPrompt>>

\* mutation: the delay is doubled after a batch with a failed bump
ScheduleUpdateTradesBackoff(c) ==
  /\ chains[c].pc = "schedule"
  /\ chains' = [chains EXCEPT ![c].pc = "done"]
  /\ timers' = Append(timers,
        [delay |-> IF \E k \in 1..Len(chains[c].report) : chains[c].report[k].outcome = "failed"
                   THEN 2 * TimerDelay(args.interval) ELSE TimerDelay(args.interval),
         page |-> chains[c].page])
  /\ UNCHANGED <<cmd, args, prefs, cycles, logins, loggedIn, errs, pages, lastPrompt>>

\* mutation: setTimeout is called twice
ScheduleUpdateTradesTwice(c) ==
  /\ chains[c].pc = "schedule"
  /\ chains' = [chains EXCEPT ![c].pc = "done"]
  /\ timers' = timers \o << [delay |-> TimerDelay(args.interval), page |-> chains[c].page],
                            [delay |-> TimerDelay(args.interval), page |-> chains[c].page] >>
  /\ UNCHANGED <<cmd, args, prefs, cycles, logins, loggedIn, errs, pages, lastPrompt>>

\* scheduleUpdateTrades: setTimeout(callback, 1000 * 60 * minutes), the
\* callback closing over [page, args, opts]; the chain ends here
ScheduleUpdateTrades(c) ==
  /\ chains[c].pc = "schedule"
  /\ chains' = [chains EXCEPT ![c].pc = "done"]
  /\ timers' = Append(timers, [delay |-> TimerDelay(args.interval), page |-> chains[c].page])
  /\ UNCHANGED <<cmd, args, prefs, cycles, logins, loggedIn, errs, pages, lastPrompt>>

RemoveAt(s, i) == SubSeq(s, 1, i - 1) \o SubSeq(s, i + 1, Len(s))

\* mutation: setInterval for setTimeout, the timer stays armed
TimerFireRepeats(i) ==
  /\ i \in 1..Len(timers)
  /\ HasFreeSlot
  /\ chains' = [chains EXCEPT ![FreeSlot] = [FreeChain EXCEPT !.pc = "scrape", !.step = 1,
                                                           !.page = timers[i].page]]
  /\ cycles' = Bump(cycles)
  /\ UNCHANGED <<cmd, args, prefs, timers, logins, loggedIn, errs, pages, lastPrompt>>

\* mutation: the timer callback starts its chain at login
TimerFireRelogin(i) ==
  /\ i \in 1..Len(timers)
  /\ HasFreeSlot
  /\ timers' = RemoveAt(timers, i)
  /\ chains' = [chains EXCEPT ![FreeSlot] = [FreeChain EXCEPT !.pc = "login", !.step = 1,
                                                           !.page = timers[i].page]]
  /\ logins' = Bump(logins)
  /\ UNCHANGED <<cmd, args, prefs, cycles, loggedIn, errs, pages, lastPrompt>>

\* mutation: the timer callback calls updateTrades with the URLs of the
\* batch before
TimerFireCarries(i) ==
  /\ i \in 1..Len(timers)
  /\ HasFreeSlot
  /\ timers' = RemoveAt(timers, i)
  /\ chains' = [chains EXCEPT ![FreeSlot] = [FreeChain EXCEPT !.pc = "update", !.step = 1,
                                                           !.page = timers[i].page,
                                                           !.tradeUrls = chains[FreeSlot].tradeUrls]]
  /\ cycles' = Bump(cycles)
  /\ UNCHANGED <<cmd, args, prefs, logins, loggedIn, errs, pages, lastPrompt>>

\* a timer expires (it is gone then) and its callback starts a new chain
\* scrapeTrades -> updateTrades -> scheduleUpdateTrades
TimerFire(i) ==
  /\ i \in 1..Len(timers)
  /\ HasFreeSlot
  /\ timers' = RemoveAt(timers, i)
  /\ chains' = [chains EXCEPT ![FreeSlot] = [FreeChain EXCEPT !.pc = "scrape", !.step = 1,
                                                           !.page = timers[i].page]]
  /\ cycles' = Bump(cycles)
  /\ UNCHANGED <<cmd, args, prefs, logins, loggedIn, errs, pages, lastPrompt>>

(* ------------------------- the login command --------------------------- *)
\* dodgem login: setLogin starts the prompt
CmdLogin ==
  /\ cmd = "none"
  /\ cmd' = "login"
  /\ UNCHANGED <<args, prefs, chains, timers, cycles, logins, loggedIn, errs, pages, lastPrompt>>

\* mutation: the password is not stored
PromptCallbackNoPassword(error, credentials) ==
  /\ cmd = "login"
  /\ IF error
     THEN UNCHANGED prefs
     ELSE prefs' = [prefs EXCEPT !.username = credentials.username,
                                 !.emailAddress = credentials.emailAddress]
  /\ lastPrompt' = [called |-> TRUE, error |-> error,
                     credentials |-> IF error THEN NoPrefs ELSE credentials]
  /\ cmd' = "exited"
  /\ UNCHANGED <<args, chains, timers, cycles, logins, loggedIn, errs, pages>>

\* the callback of prompt.get: (error, credentials)
PromptCallback(error, credentials) ==
  /\ cmd = "login"
  /\ IF error
     THEN UNCHANGED prefs
     ELSE prefs' = [prefs EXCEPT !.username = credentials.username,
                                 !.emailAddress = credentials.emailAddress,
                                 !.password = credentials.password]
  /\ lastPrompt' = [called |-> TRUE, error |-> error,
                     credentials |-> IF error THEN NoPrefs ELSE credentials]
  /\ cmd' = "exited"
  /\ UNCHANGED <<args, chains, timers, cycles, logins, loggedIn, errs, pages>>

\* a process that has exited is followed by a new invocation; the
\* preference store is what the last one left
NewRun ==
  /\ cmd = "exited"
  /\ cmd' = "none"
  /\ lastPrompt' = NoPrompt
  /\ UNCHANGED <<args, prefs, chains, timers, cycles, logins, loggedIn, errs, pages>>

Next ==
  \/ \E t \in TargetInputs, i \in IntervalInputs : CmdBump(t, i)
  \/ \E c \in Chains, ok \in BOOLEAN : BootStep(c, ok)
  \/ \E c \in Chains, ok \in BOOLEAN : LoginStep(c, ok)
  \/ \E c \in Chains, ok \in BOOLEAN, L \in Listings : ScrapeStep(c, ok, L)
  \/ \E c \in Chains, ok \in BOOLEAN : UpdateStep(c, ok)
  \/ \E c \in Chains : UpdateTradesReturn(c)
  \/ \E c \in Chains : ScheduleUpdateTrades(c)
  \/ \E i \in 1..Len(timers) : TimerFire(i)
  \/ CmdLogin
  \/ \E error \in BOOLEAN, credentials \in CredentialInputs : PromptCallback(error, credentials)
  \/ NewRun

Spec == Init /\ [][Next]_vars

\* the event loop runs every callback that is ready, and every awaited
\* Page Driver call settles
FairSpec == Spec /\ WF_vars(Next)

(* ------------------------------ properties ----------------------------- *)
\* scrapeTrades of chain c has returned
Scraped(c) == chains[c].pc \in {"update", "schedule", "done"}
\* updateTrades of chain c has returned
BatchOver(c) == chains[c].pc \in {"schedule", "done"}
\* chain c is still running
Live(c) == chains[c].pc \in {"boot", "login", "scrape", "update", "schedule"}
IsPrefix(s, t) == Len(s) <= Len(t) /\ s = SubSeq(t, 1, Len(s))
HasFailure(c) == \E k \in 1..Len(chains[c].report) : chains[c].report[k].outcome = "failed"
\* a discover -> bump cycle begins: scrapeTrades has just been called
CycleBegins == \E c \in Chains : chains[c].pc = "scrape" /\ chains[c].step = 1

\* C1: with target oldest and a non-empty listing order L on the page,
\* scrapeTrades returns exactly <<L[last]>>, and updateTrades navigates to
\* no other URL in that cycle.
C1_OldestIsLast ==
  \A c \in Chains :
    (args.target = "oldest" /\ Scraped(c) /\ chains[c].scraped # <<>>) =>
      /\ chains[c].tradeUrls = <<chains[c].scraped[Len(chains[c].scraped)]>>
      /\ IsPrefix(chains[c].attempts, chains[c].tradeUrls)

C1_Witness ==
  \E c \in Chains :
    /\ args.target = "oldest"
    /\ BatchOver(c)
    /\ Len(chains[c].scraped) >= 2
    /\ chains[c].attempts = <<chains[c].scraped[Len(chains[c].scraped)]>>

\* C2: with target all, scrapeTrades returns the listing order of the page
\* unchanged (same length, elements and order), the empty one included.
C2_AllUnchanged ==
  \A c \in Chains :
    (args.target = "all" /\ Scraped(c)) => chains[c].tradeUrls = chains[c].scraped

C2_Witness ==
  \E c \in Chains :
    /\ args.target = "all"
    /\ Scraped(c)
    /\ Len(chains[c].scraped) >= 2
    /\ chains[c].tradeUrls = chains[c].scraped

\* C3: when the page shows no listing, scrapeTrades returns the empty
\* sequence, for either target.
C3_EmptyGivesEmpty ==
  \A c \in Chains :
    (Scraped(c) /\ chains[c].scraped = <<>>) => chains[c].tradeUrls = <<>>

\* C4: a cycle that finds no listing is a no-op for either target: no
\* listing navigation and no succeeded or failed outcome.
C4_NoListingsNoOp ==
  \A c \in Chains :
    (Scraped(c) /\ chains[c].scraped = <<>>) =>
      chains[c].attempts = <<>> /\ chains[c].report = <<>>

\* C5: whatever bumps fail, updateTrades navigates to every URL of its input
\* exactly once and in order, and reports exactly one outcome per input URL,
\* in input order.
C5_FailureIsolation ==
  \A c \in Chains :
    /\ chains[c].pc = "update" =>
         /\ IsPrefix(chains[c].attempts, chains[c].tradeUrls)
         /\ Len(chains[c].report) = chains[c].index
         /\ Len(chains[c].attempts) = chains[c].index + (IF chains[c].step > 1 THEN 1 ELSE 0)
    /\ Scraped(c) =>
         /\ Len(chains[c].report) <= Len(chains[c].tradeUrls)
         /\ \A k \in 1..Len(chains[c].report) : chains[c].report[k].url = chains[c].tradeUrls[k]
    /\ BatchOver(c) =>
         /\ chains[c].attempts = chains[c].tradeUrls
         /\ Len(chains[c].report) = Len(chains[c].tradeUrls)

C5_Witness ==
  \E c \in Chains :
    /\ BatchOver(c)
    /\ Len(chains[c].tradeUrls) = 3
    /\ chains[c].report[1].outcome = "succeeded"
    /\ chains[c].report[2].outcome = "failed"
    /\ chains[c].report[3].outcome = "succeeded"

\* C6: when updateTrades has gone through its batch, whatever the outcomes
\* of the bumps, the chain goes on to scheduleUpdateTrades, which arms the
\* timer of the next run.
C6_BatchThenSchedule ==
  [][\A c \in Chains :
       /\ (chains[c].pc = "update" /\ chains[c].index >= Len(chains[c].tradeUrls)) =>
            chains'[c].pc = "schedule"
       /\ chains[c].pc = "schedule" =>
            chains'[c].pc = "done" /\ Len(timers') = Len(timers) + 1]_vars

C6_Witness ==
  \E c \in Chains :
    /\ chains[c].pc = "done"
    /\ Len(timers) = 1
    /\ Len(chains[c].report) >= 2
    /\ \A k \in 1..Len(chains[c].report) : chains[c].report[k].outcome = "failed"

\* C7 as stated: after a successful login a discover -> bump cycle begins
\* infinitely often.
C7_CyclesForever == loggedIn ~> CycleBegins

\* C7 amended: after a successful login a cycle begins again and again for
\* as long as no listing discovery has failed.
C7_CyclesUntilDiscoveryFails ==
  (loggedIn /\ "scrape" \notin errs) ~> (CycleBegins \/ "scrape" \in errs)

C7_Witness == CycleBegins /\ cycles >= 2 /\ timers = <<>>

\* C8: at most one of authenticating, discovering, bumping and waiting is
\* active: at most one chain is running, and none while a timer is pending.
C8_OnePhase ==
  Cardinality({c \in Chains : Live(c)}) + Len(timers) <= 1

C8_Witness ==
  \E c \in Chains :
    /\ cycles >= 2
    /\ chains[c].pc = "update"
    /\ chains[c].index >= 1
    /\ timers = <<>>

\* C9: once a Page Driver call of login has failed, no cycle begins: no
\* discovery, no bump and no timer.
C9_LoginFailureIsFatal ==
  "login" \in errs =>
    /\ cycles = 0
    /\ timers = <<>>
    /\ \A c \in Chains : chains[c].pc \in {"free", "rejected"} /\ chains[c].attempts = <<>>

C9_Witness ==
  \E c \in Chains :
    /\ "login" \in errs
    /\ chains[c].pc = "rejected"
    /\ chains[c].step = Len(LoginOps)

\* C10: once a listing discovery has failed, in the first or a later cycle,
\* nothing is bumped in that cycle and no further cycle is scheduled or run.
C10_DiscoveryFailureIsFatal ==
  "scrape" \in errs =>
    /\ timers = <<>>
    /\ \A c \in Chains :
         /\ ~Live(c)
         /\ chains[c].pc = "rejected" => chains[c].attempts = <<>> /\ chains[c].report = <<>>

C10_Witness ==
  \E c \in Chains :
    /\ "scrape" \in errs
    /\ cycles >= 2
    /\ chains[c].pc = "rejected"
    /\ chains[c].step = Len(ScrapeOps)

\* the Page Driver calls in lst all resolved
AllOk(lst) == \A k \in 1..Len(lst) : lst[k].ok

\* C11: login runs exactly once per process run, before the first listing
\* discovery; no later cycle logs in again, and every cycle and every timer
\* uses the one page boot opened.
C11_LoginOnce ==
  /\ logins <= 1
  /\ pages <= 1
  /\ cycles >= 1 => (logins = 1 /\ loggedIn)
  /\ \A c \in Chains :
       chains[c].pc \in {"login", "scrape", "update", "schedule", "done"} => chains[c].page = 1
  /\ \A i \in 1..Len(timers) : timers[i].page = 1

C11_Witness ==
  \E c \in Chains :
    /\ cycles >= 2
    /\ logins = 1
    /\ chains[c].pc = "update"
    /\ chains[c].page = 1
    /\ chains[c].attempts # <<>>

\* C12: for each URL the calls are made in the order goto, click, wait,
\* click, wait; the first call that fails is the last call made for that
\* URL, and the next URL starts again with goto.
C12_StepOrder ==
  \A c \in Chains :
    /\ chains[c].pc = "update" =>
         /\ Len(chains[c].calls) = chains[c].step - 1
         /\ AllOk(chains[c].calls)
         /\ \A k \in 1..Len(chains[c].calls) : chains[c].calls[k].op = UpdateOps[k]
    /\ Len(chains[c].lastCalls) <= Len(UpdateOps)
    /\ \A k \in 1..Len(chains[c].lastCalls) :
         /\ chains[c].lastCalls[k].op = UpdateOps[k]
         /\ k < Len(chains[c].lastCalls) => chains[c].lastCalls[k].ok

C12_Witness ==
  \E c \in Chains :
    /\ chains[c].pc = "update"
    /\ Len(chains[c].lastCalls) = 3
    /\ ~chains[c].lastCalls[3].ok
    /\ Len(chains[c].calls) = 1
    /\ chains[c].calls[1].op = "goto"

\* C13: every listing gets exactly one terminal notification, before the
\* next listing starts: succeeded if and only if all five calls resolved,
\* failed otherwise.
C13_OneTerminalNotification ==
  \A c \in Chains :
    /\ chains[c].pc = "update" =>
         /\ Len(chains[c].report) = chains[c].index
         /\ Len(chains[c].attempts) <= Len(chains[c].report) + 1
    /\ BatchOver(c) => Len(chains[c].report) = Len(chains[c].attempts)
    /\ (Scraped(c) /\ chains[c].report # <<>>) =>
         LET last == chains[c].report[Len(chains[c].report)]
         IN  /\ last.outcome \in {"succeeded", "failed"}
             /\ last.outcome = "succeeded" <=>
                  (Len(chains[c].lastCalls) = Len(UpdateOps) /\ AllOk(chains[c].lastCalls))

C13_Witness ==
  \E c \in Chains :
    /\ Len(chains[c].report) = 2
    /\ chains[c].report[1].outcome = "succeeded"
    /\ chains[c].report[2].outcome = "failed"
    /\ Len(chains[c].lastCalls) = Len(UpdateOps)

\* C14: every timer is armed with exactly the configured interval (in
\* milliseconds), in every cycle and whatever bumps failed.
C14_ExactInterval ==
  \A i \in 1..Len(timers) : timers[i].delay = 60000 * ToNumber(args.interval)

C14_Witness ==
  \E c \in Chains :
    /\ cycles >= 2
    /\ chains[c].pc = "done"
    /\ HasFailure(c)
    /\ Len(timers) = 1
    /\ timers[1].delay = 60000

\* C15: every interval the bump command accepts is a positive integer; the
\* empty string and 0 are rejected.
C15_IntervalPositive ==
  cmd = "bump" => Len(args.interval) >= 1 /\ ToNumber(args.interval) >= 1

\* C16: the URLs bumped in a cycle are the result of that cycle's own
\* discovery; a cycle starts with no URL list.
C16_FreshEachCycle ==
  \A c \in Chains :
    /\ chains[c].pc = "scrape" =>
         chains[c].tradeUrls = <<>> /\ chains[c].attempts = <<>> /\ chains[c].scraped = <<>>
    /\ Scraped(c) =>
         /\ chains[c].tradeUrls = SelectTarget(args.target, chains[c].scraped)
         /\ IsPrefix(chains[c].attempts, SelectTarget(args.target, chains[c].scraped))

C16_Witness ==
  \E c \in Chains :
    /\ cycles >= 2
    /\ BatchOver(c)
    /\ Len(chains[c].scraped) >= 2
    /\ chains[c].attempts = chains[c].scraped

\* C17: no step of the bump pipeline changes the stored credentials; only a
\* successful prompt of the login command writes them.
C17_PrefsFrame ==
  [][prefs' # prefs => (cmd = "login" /\ lastPrompt'.called /\ ~lastPrompt'.error)]_vars

C17_Witness ==
  \E c \in Chains :
    /\ cmd = "bump"
    /\ prefs \in CredentialInputs
    /\ cycles >= 2
    /\ chains[c].pc = "done"
    /\ HasFailure(c)

\* C18: in the login command an input error or abort leaves username,
\* emailAddress and password as they were; a successful prompt overwrites
\* all three with the entered values.
C18_PromptOutcome ==
  [][(cmd = "login" /\ cmd' # "login") =>
       /\ lastPrompt'.called
       /\ IF lastPrompt'.error
          THEN prefs' = prefs
          ELSE /\ prefs'.username = lastPrompt'.credentials.username
               /\ prefs'.emailAddress = lastPrompt'.credentials.emailAddress
               /\ prefs'.password = lastPrompt'.credentials.password]_vars

C18_Witness ==
  /\ cmd = "exited"
  /\ lastPrompt.called
  /\ lastPrompt.error
  /\ prefs \in CredentialInputs

\* C19: at most one timer is pending; a finished batch arms exactly one, and
\* only when no timer is pending and no chain is running.
C19_OneTimer ==
  [][/\ Len(timers') <= 1
     /\ timers' # <<>> => \A c \in Chains : chains'[c].pc \notin {"boot", "login", "scrape", "update"}
     /\ \A c \in Chains :
          (chains[c].pc = "schedule" /\ chains'[c].pc = "done") => Len(timers') = Len(timers) + 1
     /\ Len(timers') > Len(timers) =>
          /\ timers = <<>>
          /\ \E c \in Chains :
               /\ chains[c].pc = "schedule"
               /\ chains'[c].pc = "done"
               /\ \A d \in Chains \ {c} : chains[d].pc \in {"free", "done", "rejected"}]_vars

C19_Witness ==
  /\ cycles >= 2
  /\ Len(timers) = 1
  /\ \A c \in Chains : chains[c].pc \in {"free", "done"}

====
